---- MODULE Spec2Model ----
(***************************************************************************)
(* lumberjack.js: a logger that appends lines to a <textarea>.  A line is  *)
(* written into the textarea only while it is scrolled to the bottom;      *)
(* otherwise it is kept in a buffer that the next write at the bottom      *)
(* flushes.  Strings are sequences of one-character strings.               *)
(***************************************************************************)
EXTENDS Integers, Sequences, FiniteSets, TLC

VARIABLES
    constructed,      \* new Lumber(device) has run
    value,            \* device.value
    wrap,             \* device.wrap
    scrollTop,        \* device.scrollTop
    clientHeight,     \* device.clientHeight, in lines
    selectionStart,   \* device.selectionStart
    selectionEnd,     \* device.selectionEnd
    buffer,           \* var buffer
    timers,           \* var timers: own properties of the object
    groups,           \* var groups
    prefix,           \* this.prefix: which function is assigned
    clock,            \* the last reading of the system clock (new Date)
    written,          \* history: every string push built, concatenated in call order
    pending,          \* history: the strings pushed since the last push at the bottom
    lastBottom,       \* history: where the most recent push found the surface
    everAway,         \* history: some push found the surface away from the bottom
    lastFlush,        \* history: how many pending strings the last push at the bottom found
    scrollSet,        \* history: the last offset the code assigned to device.scrollTop
    nwrites,          \* history: the number of calls of push
    budget            \* the number of calls of push a run may make

vars == <<constructed, value, wrap, scrollTop, clientHeight, selectionStart,
          selectionEnd, buffer, timers, groups, prefix, clock, written, pending,
          lastBottom, everAway, lastFlush, scrollSet, nwrites, budget>>

device == <<value, wrap, scrollTop, clientHeight, selectionStart, selectionEnd>>

history == <<written, pending, lastBottom, everAway, lastFlush, scrollSet, nwrites>>

-----------------------------------------------------------------------------
(* Bounds of the model *)

MaxWrites == 2
MaxLogs == 4
MaxFormat == 3
MaxClock == 1
MaxGroups == 1
MaxSel == 1

-----------------------------------------------------------------------------
(* Strings *)

Max(a, b) == IF a >= b THEN a ELSE b
Min(a, b) == IF a <= b THEN a ELSE b

Digit(d) == <<"0", "1", "2", "3", "4", "5", "6", "7", "8", "9">>[d + 1]

RECURSIVE NatStr(_)
NatStr(n) == IF n < 10 THEN <<Digit(n)>> ELSE NatStr(n \div 10) \o <<Digit(n % 10)>>

\* JavaScript values that timers[name] and date arithmetic produce
Undefined == [t |-> "undefined", v |-> 0]
Function == [t |-> "function", v |-> 0]
NaN == [t |-> "NaN", v |-> 0]
Number(n) == [t |-> "number", v |-> n]

\* ToString of a number
NumStr(x) ==
    IF x.t = "NaN" THEN <<"N", "a", "N">>
    ELSE IF x.v < 0 THEN <<"-">> \o NatStr(0 - x.v)
    ELSE NatStr(x.v)

\* ToBoolean
Truthy(x) ==
    \/ x.t = "function"
    \/ x.t = "number" /\ x.v # 0

\* Array.prototype.join(' ')
RECURSIVE Join(_)
Join(parts) ==
    IF Len(parts) = 0 THEN <<>>
    ELSE IF Len(parts) = 1 THEN parts[1]
    ELSE parts[1] \o <<" ">> \o Join(Tail(parts))

RECURSIVE Concat(_)
Concat(ss) == IF Len(ss) = 0 THEN <<>> ELSE Head(ss) \o Concat(Tail(ss))

-----------------------------------------------------------------------------
(* Inputs *)

Parts == {<<<<"a">>, <<"b">>>>}
Names == {"x", "toString"}
NameText(name) ==
    IF name = "x" THEN <<"x">> ELSE <<"t", "o", "S", "t", "r", "i", "n", "g">>
ClientHeights == {1, 2}
DeviceValues == {<<>>, <<"z", "\n", "z", "\n">>}
Prefixes == {"default", "custom"}

\* keys every object inherits from Object.prototype (those among Names)
ObjectPrototype == {"toString"}

-----------------------------------------------------------------------------
(* The textarea: what the browser computes for the properties the code uses *)

RECURSIVE Newlines(_)
Newlines(v) ==
    IF Len(v) = 0 THEN 0
    ELSE (IF Head(v) = "\n" THEN 1 ELSE 0) + Newlines(Tail(v))

\* device.scrollHeight in lines; with wrap off a line of text is one row, and
\* the scrollable height is never less than the viewport
ScrollHeight(v, h) == Max(h, 1 + Newlines(v))

\* assigning device.scrollTop: the browser clamps the offset to what can scroll
SetScrollTop(y, v, h) == Max(0, Min(y, ScrollHeight(v, h) - h))

\* assigning device.value: a changed value moves the caret to the end of the
\* text and drops the selection; this is the reset the buffer exists to avoid
SetValueSelection(old, new, sel) == IF new = old THEN sel ELSE Len(new)

-----------------------------------------------------------------------------
(* The state before new Lumber(device) *)

NoTimers == [n \in {} |-> 0]

InitWith(b) ==
    /\ budget = b
    /\ constructed = FALSE
    /\ value \in DeviceValues
    /\ wrap = "soft"
    /\ clientHeight \in ClientHeights
    /\ scrollTop = 0
    /\ selectionStart = 0
    /\ selectionEnd = 0
    /\ buffer = <<>>
    /\ timers = NoTimers
    /\ groups = 0
    /\ prefix = "default"
    /\ clock = 0
    /\ written = <<>>
    /\ pending = <<>>
    /\ lastBottom = "none"
    /\ everAway = FALSE
    /\ lastFlush = 0
    /\ scrollSet = 0
    /\ nwrites = 0

Init == InitWith(MaxWrites)

-----------------------------------------------------------------------------
(* function Lumber(device) *)

\* a constructor that leaves in the textarea whatever it held
LumberKeepsValue ==
    /\ ~constructed
    /\ constructed' = TRUE
    /\ buffer' = <<>>
    /\ timers' = NoTimers
    /\ groups' = 0
    /\ wrap' = "off"
    /\ prefix' = "default"
    /\ UNCHANGED <<value, selectionStart, selectionEnd, scrollTop, clientHeight,
                   clock, history, budget>>

Lumber ==
    /\ ~constructed
    /\ constructed' = TRUE
    /\ buffer' = <<>>
    /\ timers' = NoTimers
    /\ groups' = 0
    /\ value' = <<>>
    /\ selectionStart' = SetValueSelection(value, <<>>, selectionStart)
    /\ selectionEnd' = SetValueSelection(value, <<>>, selectionEnd)
    /\ scrollTop' = SetScrollTop(scrollTop, <<>>, clientHeight)
    /\ wrap' = "off"
    /\ prefix' = "default"
    /\ UNCHANGED <<clientHeight, clock, history, budget>>

-----------------------------------------------------------------------------
(* function push(text) *)

\* the surface is scrolled to the bottom (header, goal 2)
SurfaceAtBottom == scrollTop >= ScrollHeight(value, clientHeight) - clientHeight

\* a push that never looks at where the surface is scrolled
BottomAlways(old) == TRUE

\* a comparison that leaves out the offset equal to the maximum
BottomStrict(old) == old > ScrollHeight(value, clientHeight) - clientHeight

\* var bottom = old >= device.scrollHeight - device.clientHeight;
Bottom(old) == old >= ScrollHeight(value, clientHeight) - clientHeight

\* var groupIndent = Array(1 + 4 * groups).join(' ');
\* an indent built with Array(4 * groups), one space short
GroupIndentShort(g) == [i \in 1..(4 * g - 1) |-> " "]

GroupIndent(g) == [i \in 1..(4 * g) |-> " "]

\* this.prefix = function() { return +new Date + ': '; }; or the caller's own
\* a push that calls the prefix function it found at construction
PrefixTextDefault(p, t) == NumStr(Number(t)) \o <<":", " ">>

PrefixText(p, t) ==
    IF p = "default" THEN NumStr(Number(t)) \o <<":", " ">> ELSE <<">", " ">>

\* var update = groupIndent + that.prefix() + text + '\n';
Update(g, pfx, text) == GroupIndent(g) \o pfx \o text \o <<"\n">>

\* a push that writes the textarea wherever it is scrolled
PushValueAlways(bottom, update) == value \o buffer \o update

\* device.value after push
\* a flush that appends the new line and forgets the buffered ones
PushValueNoBuffer(bottom, update) == IF bottom THEN value \o update ELSE value

\* a flush that indents what waited in the buffer to the depth of the flush
PushValueReindent(bottom, update) ==
    IF bottom
      THEN value \o (IF buffer = <<>> THEN <<>> ELSE GroupIndent(groups) \o buffer)
                 \o update
      ELSE value

PushValue(bottom, update) == IF bottom THEN value \o buffer \o update ELSE value

\* a push that puts the new line in front of the buffered ones
PushBufferPrepend(bottom, update) == IF bottom THEN <<>> ELSE update \o buffer

\* a push that leaves the buffer as it is after writing it out
PushBufferKept(bottom, update) == IF bottom THEN buffer ELSE buffer \o update

\* buffer after push
PushBuffer(bottom, update) == IF bottom THEN <<>> ELSE buffer \o update

\* a push that restores the old offset on both paths
PushScrollTopOld(bottom, old, newValue) == old

\* the offset push assigns to device.scrollTop
PushScrollTop(bottom, old, newValue) ==
    IF bottom THEN ScrollHeight(newValue, clientHeight) ELSE old

\* push(text) where the prefix function, if it reads the clock, reads t
Push(text, t) ==
    LET old == scrollTop
        bottom == Bottom(old)
        pfx == PrefixText(prefix, t)
        update == Update(groups, pfx, text)
        newValue == PushValue(bottom, update)
        top == PushScrollTop(bottom, old, newValue)
    IN  /\ nwrites < budget
        /\ value' = newValue
        /\ selectionStart' = SetValueSelection(value, newValue, selectionStart)
        /\ selectionEnd' = SetValueSelection(value, newValue, selectionEnd)
        /\ buffer' = PushBuffer(bottom, update)
        /\ scrollTop' = SetScrollTop(top, newValue, clientHeight)
        /\ clock' = t
        /\ written' = written \o update
        /\ pending' = IF SurfaceAtBottom THEN <<>> ELSE Append(pending, update)
        /\ lastBottom' = IF SurfaceAtBottom THEN "yes" ELSE "no"
        /\ everAway' = (everAway \/ ~SurfaceAtBottom)
        /\ lastFlush' = IF SurfaceAtBottom THEN Len(pending) ELSE lastFlush
        /\ scrollSet' = top
        /\ nwrites' = nwrites + 1
        /\ UNCHANGED <<constructed, wrap, clientHeight, groups, prefix, budget>>

\* the clock readings the prefix function may return after a reading of c:
\* the clock never runs backwards, and its first reading may be 0
PrefixReadings(c) == IF prefix = "default" THEN c..MaxClock ELSE {c}

-----------------------------------------------------------------------------
(* this.log, this.error, this.warn, this.info *)

\* error and warn carrying each other's tag
TagSwapped(level) ==
    CASE level = "error" -> <<<<"(", "W", ")">>>>
      [] level = "warn" -> <<<<"(", "E", ")">>>>
      [] level = "info" -> <<<<"(", "i", ")">>>>
      [] OTHER -> <<>>

Tag(level) ==
    CASE level = "error" -> <<<<"(", "E", ")">>>>
      [] level = "warn" -> <<<<"(", "W", ")">>>>
      [] level = "info" -> <<<<"(", "i", ")">>>>
      [] OTHER -> <<>>

Levels == {"log", "error", "warn", "info"}

Log(level, parts) ==
    /\ constructed
    /\ \E t \in PrefixReadings(clock) : Push(Join(Tag(level) \o parts), t)
    /\ UNCHANGED timers

-----------------------------------------------------------------------------
(* this.time, this.timeEnd *)

\* timers[name]: an own property, else what Object.prototype has, else undefined
TimersGet(name) ==
    IF name \in DOMAIN timers THEN Number(timers[name])
    ELSE IF name \in ObjectPrototype THEN Function
    ELSE Undefined

TimersSet(name, t) ==
    [n \in DOMAIN timers \cup {name} |-> IF n = name THEN t ELSE timers[n]]

TimersDelete(name) == [n \in DOMAIN timers \ {name} |-> timers[n]]

\* if (!timers[name])
TimeStarts(name) == ~Truthy(TimersGet(name))

\* if (timers[name])
TimeEndStops(name) == Truthy(TimersGet(name))

\* new Date - timers[name]
Elapsed(now, start) == IF start.t = "number" THEN Number(now - start.v) ELSE NaN

TimerStarted == <<":", " ", "t", "i", "m", "e", "r", " ", "s", "t", "a", "r", "t", "e", "d">>

Time(name) ==
    /\ constructed
    /\ IF TimeStarts(name)
       THEN \E now \in clock..MaxClock : \E t \in PrefixReadings(now) :
               /\ timers' = TimersSet(name, now)
               /\ Push(NameText(name) \o TimerStarted, t)
       ELSE UNCHANGED <<constructed, device, buffer, timers, groups, prefix,
                        clock, history, budget>>

TimeEnd(name) ==
    /\ constructed
    /\ IF TimeEndStops(name)
       THEN \E now \in clock..MaxClock : \E t \in PrefixReadings(now) :
               /\ Push(NameText(name) \o <<":", " ">>
                          \o NumStr(Elapsed(now, TimersGet(name)))
                          \o <<" ", "m", "s">>, t)
               /\ timers' = TimersDelete(name)
       ELSE UNCHANGED <<constructed, device, buffer, timers, groups, prefix,
                        clock, history, budget>>

-----------------------------------------------------------------------------
(* this.group, this.groupEnd, and assigning this.prefix *)

Group ==
    /\ constructed
    /\ groups < MaxGroups
    /\ groups' = groups + 1
    /\ UNCHANGED <<constructed, device, buffer, timers, prefix, clock, history,
                   budget>>

\* a groupEnd that does not test the depth before lowering it
GroupEndUnchecked ==
    /\ constructed
    /\ groups' = groups - 1
    /\ UNCHANGED <<constructed, device, buffer, timers, prefix, clock, history,
                   budget>>

GroupEnd ==
    /\ constructed
    /\ groups' = IF groups > 0 THEN groups - 1 ELSE groups
    /\ UNCHANGED <<constructed, device, buffer, timers, prefix, clock, history,
                   budget>>

SetPrefix(p) ==
    /\ constructed
    /\ prefix' = p
    /\ UNCHANGED <<constructed, device, buffer, timers, groups, clock, history,
                   budget>>

-----------------------------------------------------------------------------
(* The user at the textarea *)

\* a logger that listens for scrolling and flushes when the user reaches the
\* bottom
UserScrollFlushes(y) ==
    LET atEnd == y >= ScrollHeight(value, clientHeight) - clientHeight
        newValue == IF atEnd THEN value \o buffer ELSE value
    IN  /\ y \in 0..(ScrollHeight(value, clientHeight) - clientHeight)
        /\ y # scrollTop
        /\ value' = newValue
        /\ buffer' = IF atEnd THEN <<>> ELSE buffer
        /\ selectionStart' = SetValueSelection(value, newValue, selectionStart)
        /\ selectionEnd' = SetValueSelection(value, newValue, selectionEnd)
        /\ scrollTop' = IF atEnd
                          THEN ScrollHeight(newValue, clientHeight) - clientHeight
                          ELSE y
        /\ UNCHANGED <<constructed, wrap, clientHeight, timers, groups, prefix,
                       clock, history, budget>>

UserScroll(y) ==
    /\ y \in 0..(ScrollHeight(value, clientHeight) - clientHeight)
    /\ y # scrollTop
    /\ scrollTop' = y
    /\ UNCHANGED <<constructed, value, wrap, clientHeight, selectionStart,
                   selectionEnd, buffer, timers, groups, prefix, clock, history,
                   budget>>

UserSelect(s, e) ==
    /\ s <= e
    /\ e <= Len(value)
    /\ <<s, e>> # <<selectionStart, selectionEnd>>
    /\ selectionStart' = s
    /\ selectionEnd' = e
    /\ UNCHANGED <<constructed, value, wrap, clientHeight, scrollTop, buffer,
                   timers, groups, prefix, clock, history, budget>>

\* the user resizes the textarea; the browser keeps the offset within range
Resize(h) ==
    /\ h # clientHeight
    /\ clientHeight' = h
    /\ scrollTop' = SetScrollTop(scrollTop, value, h)
    /\ UNCHANGED <<constructed, value, wrap, selectionStart, selectionEnd,
                   buffer, timers, groups, prefix, clock, history, budget>>

-----------------------------------------------------------------------------

Next ==
    \/ Lumber
    \/ \E level \in Levels, parts \in Parts : Log(level, parts)
    \/ \E name \in Names : Time(name)
    \/ \E name \in Names : TimeEnd(name)
    \/ Group
    \/ GroupEnd
    \/ \E p \in Prefixes : SetPrefix(p)
    \/ \E y \in 0..MaxLogs : UserScroll(y)
    \/ \E s \in 0..MaxSel, e \in 0..MaxSel : UserSelect(s, e)
    \/ \E h \in ClientHeights : Resize(h)

Spec == Init /\ [][Next]_vars

\* the write path alone: every operation that calls push, and the user's scrolling
NextWrites ==
    \/ Lumber
    \/ \E level \in Levels, parts \in Parts : Log(level, parts)
    \/ \E name \in Names : Time(name)
    \/ \E name \in Names : TimeEnd(name)
    \/ \E y \in 0..MaxLogs : UserScroll(y)

SpecWrites == InitWith(MaxWrites) /\ [][NextWrites]_vars

\* the logging calls alone, and the user's scrolling
NextLog ==
    \/ Lumber
    \/ \E parts \in Parts : Log("log", parts)
    \/ \E y \in 0..MaxLogs : UserScroll(y)

SpecLog == InitWith(MaxLogs) /\ [][NextLog]_vars

\* every operation that writes or sets the depth, and the user's scrolling
NextLines ==
    \/ Lumber
    \/ \E level \in Levels, parts \in Parts : Log(level, parts)
    \/ \E name \in Names : Time(name)
    \/ \E name \in Names : TimeEnd(name)
    \/ Group
    \/ GroupEnd
    \/ \E y \in 0..MaxLogs : UserScroll(y)

SpecLines == InitWith(MaxFormat) /\ [][NextLines]_vars

\* log with the user scrolling and resizing the textarea
NextScroll ==
    \/ Lumber
    \/ \E parts \in Parts : Log("log", parts)
    \/ \E y \in 0..MaxLogs : UserScroll(y)
    \/ \E h \in ClientHeights : Resize(h)

SpecScroll == InitWith(MaxLogs) /\ [][NextScroll]_vars

\* log inside groups
NextGroups ==
    \/ Lumber
    \/ \E parts \in Parts : Log("log", parts)
    \/ Group
    \/ GroupEnd
    \/ \E y \in 0..MaxLogs : UserScroll(y)

SpecGroups == InitWith(MaxFormat) /\ [][NextGroups]_vars

\* log with the prefix function replaced between calls
NextPrefix ==
    \/ Lumber
    \/ \E parts \in Parts : Log("log", parts)
    \/ \E p \in Prefixes : SetPrefix(p)
    \/ \E y \in 0..MaxLogs : UserScroll(y)

SpecPrefix == InitWith(MaxFormat) /\ [][NextPrefix]_vars

-----------------------------------------------------------------------------
(* Properties *)

\* a step in which push ran, and the string it built
WriteStep == nwrites' = nwrites + 1
Line == SubSeq(written', Len(written) + 1, Len(written'))

\* a step of the constructor or of a method, as against one of the user
ProgramStep ==
    \/ constructed' # constructed
    \/ nwrites' # nwrites
    \/ groups' # groups
    \/ timers' # timers
    \/ prefix' # prefix

\* timers has an entry of its own for name
Running(name) == name \in DOMAIN timers

C2_FlushAtBottom ==
    [][(WriteStep /\ SurfaceAtBottom) =>
          /\ value' = value \o buffer \o Line
          /\ buffer' = <<>>
          /\ scrollSet' = ScrollHeight(value', clientHeight')
          /\ scrollTop' = ScrollHeight(value', clientHeight') - clientHeight']_vars

C2_Witness ==
    /\ lastBottom = "yes"
    /\ lastFlush >= 1
    /\ buffer = <<>>
    /\ scrollSet = ScrollHeight(value, clientHeight)

\* C3: the buffer always holds the lines written since the last write at the
\* bottom, in the order they were written; the next write at the bottom puts
\* all of them, then its own line, at the end of the content and empties the
\* buffer.
C3_EventualFlush ==
    [][/\ buffer' = Concat(pending')
       /\ (WriteStep /\ SurfaceAtBottom) =>
             /\ value' = value \o Concat(pending) \o Line
             /\ buffer' = <<>>]_vars

C3_Witness ==
    /\ lastBottom = "yes"
    /\ lastFlush >= 2
    /\ value = written
    /\ buffer = <<>>

\* C4: as long as every write so far found the surface at the bottom, every
\* line written is in the content and the buffer is empty.
C4_FlushAtBottom ==
    (constructed /\ ~everAway) => (buffer = <<>> /\ value = written)

C4_Witness ==
    /\ constructed
    /\ ~everAway
    /\ nwrites >= 3
    /\ ScrollHeight(value, clientHeight) > clientHeight
    /\ value = written

C6_BufferInvariant ==
    [][/\ (constructed' /\ ~constructed) => buffer' = <<>>
       /\ buffer' # <<>> => lastBottom' = "no"
       /\ (WriteStep /\ SurfaceAtBottom) => (buffer' = <<>> /\ value' = written')]_vars

C6_Witness ==
    /\ lastBottom = "no"
    /\ lastFlush >= 1
    /\ buffer # <<>>
    /\ Len(pending) = 1

\* C7: time(name) for a name that has an entry emits no line and leaves the
\* entry as it is.
C7_TimeIdempotent ==
    [][\A name \in Names :
          (Running(name) /\ Time(name)) =>
              (nwrites' = nwrites /\ timers' = timers)]_vars

\* C8: for every name that has no entry, time(name) records the clock reading
\* under the name and emits the line "<name>: timer started".
C8_TimeStarts ==
    (constructed /\ nwrites < budget) =>
        \A name \in Names :
            ~Running(name) =>
                ENABLED (/\ Time(name)
                         /\ WriteStep
                         /\ name \in DOMAIN timers'
                         /\ timers'[name] \in clock..clock'
                         /\ Line = Update(groups, PrefixText(prefix, clock'),
                                          NameText(name) \o TimerStarted))

\* C9: for every name that has no entry, timeEnd(name) emits no line and
\* changes neither the content, the buffer nor the timers.
C9_TimeEndNoop ==
    [][\A name \in Names :
          (~Running(name) /\ TimeEnd(name)) =>
              UNCHANGED <<value, buffer, timers, nwrites>>]_vars

\* C10: for every name that has an entry, timeEnd(name) emits the line
\* "<name>: <now - start> ms" and removes the entry.
C10_TimeEndReports ==
    (constructed /\ nwrites < budget) =>
        \A name \in Names :
            Running(name) =>
                ENABLED (/\ TimeEnd(name)
                         /\ WriteStep
                         /\ name \notin DOMAIN timers'
                         /\ \E now \in clock..clock' :
                               Line = Update(groups, PrefixText(prefix, clock'),
                                             NameText(name) \o <<":", " ">>
                                               \o NumStr(Number(now - timers[name]))
                                               \o <<" ", "m", "s">>))

\* where the last line of a text begins
LastLineStart(w) ==
    Max(1, 1 + Max(0, CHOOSE i \in 0..(Len(w) - 1) :
                        /\ i = 0 \/ w[i] = "\n"
                        /\ \A j \in (i + 1)..(Len(w) - 1) : w[j] # "\n"))

\* C11: the group depth is an integer that never goes below 0; group() raises
\* it by exactly 1, groupEnd() lowers it by exactly 1 when it is above 0 and
\* leaves it at 0 otherwise, and a line written at depth 0 starts with the
\* prefix, with no space of indentation before it
C11_GroupFloor ==
    [][/\ groups' \in Nat
       /\ Group => groups' = groups + 1
       /\ GroupEnd => groups' = (IF groups > 0 THEN groups - 1 ELSE 0)
       /\ (WriteStep /\ groups = 0) => Line[1] # " "]_vars

\* a line written inside a group, then, back at depth 0, a line with no indent
C11_Witness ==
    /\ groups = 0
    /\ nwrites >= 2
    /\ written[1] = " "
    /\ written[LastLineStart(written)] # " "

RECURSIVE Spaces(_)
Spaces(n) == IF n = 0 THEN <<>> ELSE <<" ">> \o Spaces(n - 1)

EndsWith(w, l) ==
    /\ Len(w) >= Len(l)
    /\ SubSeq(w, Len(w) - Len(l) + 1, Len(w)) = l

\* C12: every line written at depth g is exactly 4*g spaces, then the text the
\* prefix function returns, then the message, then one newline, and that line
\* is what reaches the content on a flush and the buffer otherwise
C12_Indentation ==
    [][WriteStep =>
         /\ \E parts \in Parts :
               Line = Spaces(4 * groups) \o PrefixText(prefix, clock')
                        \o Join(parts) \o <<"\n">>
         /\ IF SurfaceAtBottom
               THEN EndsWith(value', Line) /\ buffer' = <<>>
               ELSE EndsWith(buffer', Line) /\ value' = value]_vars

\* a line buffered at depth 1: four spaces, then the prefix
C12_Witness ==
    /\ groups = 1
    /\ lastBottom = "no"
    /\ Len(buffer) > 5
    /\ SubSeq(buffer, 1, 4) = Spaces(4)
    /\ buffer[5] # " "

\* the surface has nothing to scroll: the content is no taller than the viewport
Degenerate == ScrollHeight(value, clientHeight) - clientHeight <= 0

\* C13: when the content is no taller than the viewport at the time of a
\* write, the write flushes: the content gains the buffer and the line, and
\* the buffer is empty afterwards
C13_DegenerateFlushes ==
    [][(WriteStep /\ Degenerate) =>
         /\ value' = value \o buffer \o Line
         /\ buffer' = <<>>]_vars

\* the first write of a session finds an empty content, which fits any viewport
C13_Witness ==
    /\ constructed
    /\ nwrites = 1
    /\ ScrollHeight(<<>>, clientHeight) - clientHeight <= 0
    /\ value = written
    /\ value # <<>>

\* C14: construction empties the content, turns line wrapping off, and leaves
\* the buffer empty, the group depth 0 and no timer running; the first log on
\* the new session makes the content exactly the prefix, the message and a
\* newline
C14_Construction ==
    [][/\ (constructed' /\ ~constructed) =>
             /\ value' = <<>>
             /\ wrap' = "off"
             /\ buffer' = <<>>
             /\ groups' = 0
             /\ DOMAIN timers' = {}
       /\ (WriteStep /\ nwrites = 0) =>
             \E parts \in Parts :
                value' = PrefixText(prefix, clock') \o Join(parts) \o <<"\n">>]_vars

\* one line logged on a new session
C14_Witness ==
    /\ constructed
    /\ wrap = "off"
    /\ nwrites = 1
    /\ lastBottom = "yes"
    /\ value = written
    /\ Newlines(value) = 1

LevelTag(level) ==
    CASE level = "warn" -> <<"(", "W", ")">>
      [] level = "error" -> <<"(", "E", ")">>
      [] level = "info" -> <<"(", "i", ")">>

RECURSIVE WithSpaces(_)
WithSpaces(parts) ==
    IF Len(parts) = 0 THEN <<>>
    ELSE IF Len(parts) = 1 THEN Head(parts)
    ELSE Head(parts) \o <<" ">> \o WithSpaces(Tail(parts))

\* C15: warn, error and info change the state exactly as log does when it is
\* given the tag "(W)", "(E)" or "(i)" as its first part: the line written is
\* the tag and the parts joined by single spaces, on the same path as log
C15_LevelsAreLog ==
    [][\A level \in {"warn", "error", "info"}, parts \in Parts :
         /\ Log(level, parts) <=> Log("log", <<LevelTag(level)>> \o parts)
         /\ Log(level, parts) =>
               /\ WriteStep
               /\ Line = GroupIndent(groups) \o PrefixText(prefix, clock')
                        \o LevelTag(level) \o <<" ">> \o WithSpaces(parts)
                        \o <<"\n">>]_vars

\* an error line in the content and a warn line waiting in the buffer
C15_Witness ==
    /\ lastBottom = "no"
    /\ \E i \in DOMAIN buffer : buffer[i] = "W"
    /\ \E i \in DOMAIN value : value[i] = "E"

\* C16: a write that finds the surface at the bottom sets the offset to the
\* new content height, leaves the surface at the bottom and the buffer empty,
\* so a run of writes with no user scroll or resize between them flushes every
\* line; a write that finds the surface away from the bottom leaves it away
C16_StickyAutoscroll ==
    [][/\ (WriteStep /\ SurfaceAtBottom) =>
             /\ scrollSet' = ScrollHeight(value', clientHeight')
             /\ SurfaceAtBottom'
             /\ buffer' = <<>>
       /\ (WriteStep /\ ~SurfaceAtBottom) => ~SurfaceAtBottom']_vars

\* three writes in a row, each flushed, the surface following the content down
C16_Witness ==
    /\ ~everAway
    /\ nwrites >= 3
    /\ scrollTop >= 2
    /\ SurfaceAtBottom
    /\ buffer = <<>>

\* C17: group() and groupEnd() change the depth and nothing else: content,
\* buffer, scroll offset and timers stay as they were; and a flush moves the
\* waiting lines into the content as they were written, so each line keeps the
\* indentation of the depth at which it was written
C17_GroupFrame ==
    [][/\ groups' # groups =>
             UNCHANGED <<value, buffer, scrollTop, timers, written, pending>>
       /\ (WriteStep /\ SurfaceAtBottom) =>
             value' = value \o Concat(pending) \o Line]_vars

\* a line buffered at depth 1 and flushed, unchanged, by a write at depth 0
C17_Witness ==
    /\ groups = 0
    /\ nwrites = 3
    /\ lastBottom = "yes"
    /\ lastFlush = 1
    /\ \E i \in 1..(Len(value) - 1) : value[i] = "\n" /\ value[i + 1] = " "
    /\ value[LastLineStart(value)] # " "

\* what the prefix function assigned at the time of a write returns
AssignedPrefix(p, t) ==
    IF p = "custom" THEN <<">", " ">> ELSE NatStr(t) \o <<":", " ">>

\* C18: every write carries, once, the text of the prefix function assigned
\* at the time of the write; assigning another prefix function changes no line
\* already written, and a flush moves the waiting lines into the content with
\* the prefix they were written with
C18_PrefixAtWriteTime ==
    [][/\ WriteStep =>
             \E parts \in Parts :
                Line = GroupIndent(groups) \o AssignedPrefix(prefix, clock')
                         \o Join(parts) \o <<"\n">>
       /\ prefix' # prefix => UNCHANGED <<value, buffer, written, pending>>
       /\ (WriteStep /\ SurfaceAtBottom) =>
             value' = value \o Concat(pending) \o Line]_vars

\* a line buffered under the caller's prefix, flushed by a write made after the
\* default prefix was assigned again
C18_Witness ==
    /\ prefix = "default"
    /\ nwrites = 3
    /\ lastBottom = "yes"
    /\ lastFlush = 1
    /\ \E i \in 1..(Len(value) - 1) : value[i] = "\n" /\ value[i + 1] = ">"
    /\ value[LastLineStart(value)] # ">"

IsPrefix(u, w) == Len(u) <= Len(w) /\ SubSeq(w, 1, Len(u)) = u

\* C19: once the logger is constructed, the content followed by the buffer is
\* the lines of all writes so far in call order, whatever the user and the
\* other operations do in between; the content is a prefix of that text and
\* a step never shortens or rewrites it
C19_Conservation ==
    [][/\ constructed' =>
             /\ value' \o buffer' = written'
             /\ IsPrefix(value', written')
       /\ constructed => IsPrefix(value, value')]_vars

\* lines in the content and in the buffer, written inside a group with a
\* timer running
C19_Witness ==
    /\ nwrites = 3
    /\ value # <<>>
    /\ buffer # <<>>
    /\ value \o buffer = written
    /\ groups = 1
    /\ DOMAIN timers # {}

\* C20: a step that is not a write, such as the user scrolling, changes
\* neither the content nor the buffer; lines that wait in the buffer leave it
\* only by a write that finds the surface at the bottom, so after the user
\* scrolls back to the bottom they stay out of the content until such a write
C20_NoFlushWithoutWrite ==
    [][/\ (constructed /\ ~WriteStep) => UNCHANGED <<value, buffer>>
       /\ (constructed /\ buffer # <<>> /\ buffer' # buffer) =>
             WriteStep
       /\ (constructed /\ buffer # <<>> /\ buffer' = <<>>) =>
             (WriteStep /\ SurfaceAtBottom)]_vars

\* the user is back at the bottom and the buffered line is still not shown
C20_Witness ==
    /\ constructed
    /\ SurfaceAtBottom
    /\ lastBottom = "no"
    /\ buffer # <<>>
    /\ value \o buffer = written
    /\ ScrollHeight(value, clientHeight) > clientHeight

====
